---- MODULE Spec2Model ----
(***************************************************************************)
(* ReaRec / LETTER data pipeline.                                          *)
(*                                                                         *)
(*   Generator : src/src/helpers/LETTERReader.py (class LETTERReader)      *)
(*               reads the canonical artifact and derives the leave-one-   *)
(*               out train / valid / test tables.   Specification: Spec    *)
(*   Builder   : src/src/helpers/preprocess_letter_data.py (main)          *)
(*               turns loaded interactions into the canonical artifact.    *)
(*               Specification: SpecB                                      *)
(*                                                                         *)
(* Python lists are sequences, a dict is a sequence of entries in          *)
(* insertion order (the Generator) or a function (a finished table).       *)
(* A JSON key is a decimal string, modelled as its sequence of digits.     *)
(***************************************************************************)
EXTENDS Integers, Sequences, FiniteSets, TLC

\* ------------------------------------------------------------------ bounds
\* most users in an artifact
MaxUsers == 2
\* largest item id in a generated artifact
MaxItem == 1
\* most interactions ("# entry") in a generated artifact
MaxEntries == 5
\* most loaded interactions handed to the Builder
MaxRows == 4
\* most records in a raw input file
MaxLines == 3
\* most item ids in one lookup
MaxQuery == 3
\* largest total of interactions whose cut positions are computed
MaxTotal == 200
\* largest value tried for MAX_ITEM_SEQ_LEN
MaxCtx == 3

VARIABLES
    \* ---- Generator (LETTERReader)
    inters,             \* self.inters: the loaded <dataset>.inter.json
    MAX_ITEM_SEQ_LEN,   \* utils.constants.MAX_ITEM_SEQ_LEN
    pc,                 \* position inside LETTERReader._read_data
    processed_inters,   \* dict int uid -> list of int items
    n_users, n_items,   \* self.n_users, self.n_items: <<>> until assigned, then <<value>>
    uidx,               \* position of the loop of line 120
    train_data, valid_data, test_data,   \* the three row lists
    sidx,               \* position of the loop of line 153
    data_dict,          \* self.data_dict: split name -> table
    \* ---- Builder (preprocess_letter_data.main)
    bpc,                \* position inside main
    min_interactions, min_items,   \* args.min_interactions, args.min_items
    loaded_df,          \* the DataFrame the loader returned (line 239/241)
    df,                 \* main's df: rows [user_id, item_id, timestamp]
    split_dfs,          \* <<train_df, valid_df, test_df>>
    split_sequences,    \* <<train_sequences, valid_sequences, test_sequences>>
    all_sequences,      \* the merged dict uid -> item list
    inter_json,         \* the written <dataset>.inter.json
    \* ---- Loaders (load_amazon_data, load_yelp_data)
    lpc,                \* position inside the loader
    source,             \* which loader main calls (line 238)
    rating_threshold,   \* args.rating_threshold
    raw,                \* the records of the input file
    lidx,               \* position of the loop of line 83
    interactions,       \* the list built by lines 81-90
    ldf,                \* the DataFrame the loader returns
    \* ---- Lookup (LETTERReader.get_item_tokens)
    tpc,                \* position inside get_item_tokens
    indices,            \* self.indices: the loaded <dataset>.index.json
    item_ids,           \* the argument item_ids
    tidx,               \* position of the loop of line 215
    tokens              \* the dict that is returned

gvars == <<inters, MAX_ITEM_SEQ_LEN, pc, processed_inters, n_users, n_items,
           uidx, train_data, valid_data, test_data, sidx, data_dict>>

bvars == <<bpc, min_interactions, min_items, loaded_df, df, split_dfs, split_sequences,
           all_sequences, inter_json>>

lvars == <<lpc, source, rating_threshold, raw, lidx, interactions, ldf>>

tvars == <<tpc, indices, item_ids, tidx, tokens>>

vars == <<gvars, bvars, lvars, tvars>>

\* no loader is running
LoaderIdle ==
    /\ lpc = "idle"
    /\ source = "none"
    /\ rating_threshold = 0
    /\ raw = <<>>
    /\ lidx = 1
    /\ interactions = <<>>
    /\ ldf = <<>>

\* no lookup is running
LookupIdle ==
    /\ tpc = "idle"
    /\ indices = <<>>
    /\ item_ids = <<>>
    /\ tidx = 1
    /\ tokens = <<>>

\* ----------------------------------------------------------- pure helpers
Max2(a, b) == IF a >= b THEN a ELSE b
Min2(a, b) == IF a <= b THEN a ELSE b

RECURSIVE MaxOf(_)
\* Python max() of a non-empty set of ints
MaxOf(S) ==
    LET x == CHOOSE y \in S : TRUE
    IN  IF S = {x} THEN x ELSE Max2(x, MaxOf(S \ {x}))

RECURSIVE StrOf(_)
\* str(n) for n >= 0: the decimal digits, most significant first
StrOf(n) == IF n < 10 THEN <<n>> ELSE Append(StrOf(n \div 10), n % 10)

RECURSIVE IntOf(_)
\* int(s) for a string of decimal digits
IntOf(s) ==
    IF Len(s) = 1 THEN s[1]
    ELSE 10 * IntOf(SubSeq(s, 1, Len(s) - 1)) + s[Len(s)]

\* an attribute of the reader that no statement has assigned yet holds no
\* value; an assigned attribute holds exactly one
Unassigned == <<>>

\* the value of an assigned attribute
ValueOf(attr) == attr[1]

\* Python x[:k] for k >= 0
Prefix(x, k) == SubSeq(x, 1, Min2(k, Len(x)))

\* Python x[:-k] for k >= 1
DropLast(x, k) == SubSeq(x, 1, Len(x) - k)

\* Python x[-n:] : the last n elements; x[-0:] is x[0:], the whole list
LastN(x, n) ==
    IF n = 0 THEN x ELSE SubSeq(x, Max2(1, Len(x) - n + 1), Len(x))

\* the items of a list as a set
Elems(x) == {x[i] : i \in 1..Len(x)}

\* dict assignment d[k] = v on an insertion-ordered dict of [uid, items]:
\* an existing key keeps its position and takes the new value
DictPut(d, k, v) ==
    IF \E i \in 1..Len(d) : d[i].uid = k
    THEN [i \in 1..Len(d) |-> IF d[i].uid = k THEN [uid |-> k, items |-> v] ELSE d[i]]
    ELSE Append(d, [uid |-> k, items |-> v])

RECURSIVE ProcessedFrom(_, _)
\* lines 91-93: processed_inters[int(uid)] = [int(item) for item in items]
ProcessedFrom(js, n) ==
    IF n = 0 THEN <<>>
    ELSE DictPut(ProcessedFrom(js, n - 1), IntOf(js[n].key), js[n].items)

\* lines 96-98: the set of all item ids of all users
AllItems(p) == UNION {Elems(p[i].items) : i \in 1..Len(p)}

\* mutant of NItems: only one id is added to the largest item id
NItems_PlusOne(all_items) == MaxOf(all_items) + 1

\* line 101: self.n_items = max(all_items) + 2
NItems(all_items) == MaxOf(all_items) + 2

\* ------------------------------------------ Generator: leave-one-out rows
\* mutant of TooFew: users of two items are let through
TooFew_LessThanTwo(items) == Len(items) < 2

\* line 121: users with too few interactions are skipped
TooFew(items) == Len(items) < 3

\* mutant of TrainItems: only the test item is held out of the train windows
TrainItems_DropOne(items) == DropLast(items, 1)

\* line 125: train_items = items[:-2]
TrainItems(items) == DropLast(items, 2)

\* mutant of TrainRange: the windows start at index 0, an empty context
TrainRange_FromZero(train_items) == 0..(Len(train_items) - 1)

\* mutant of TrainRange: the windows start at index 2
TrainRange_FromTwo(train_items) == 2..(Len(train_items) - 1)

\* line 130: range(1, len(train_items)), the 0-based window indices
TrainRange(train_items) == 1..(Len(train_items) - 1)

\* mutant of TrainRow: the context runs up to and including the target
TrainRow_TargetInContext(uid, train_items, i) ==
    [user_id |-> uid, item_id |-> train_items[i + 1], item_seq |-> Prefix(train_items, i + 1)]

\* lines 131-135: the train row of window index i (0-based):
\* target train_items[i], context train_items[:i]
TrainRow(uid, train_items, i) ==
    [user_id |-> uid, item_id |-> train_items[i + 1], item_seq |-> Prefix(train_items, i)]

\* mutant of TrainRows: the windows of a user are emitted longest first
TrainRows_Descending(uid, items) ==
    LET train_items == TrainItems(items)
        n == Cardinality(TrainRange(train_items))
    IN  [k \in 1..n |-> TrainRow(uid, train_items, n + 1 - k)]

\* lines 130-135: the train rows of one user, in increasing window index
TrainRows(uid, items) ==
    LET train_items == TrainItems(items)
        n == Cardinality(TrainRange(train_items))
        lo == IF n = 0 THEN 1 ELSE CHOOSE i \in TrainRange(train_items) :
                                      \A j \in TrainRange(train_items) : i <= j
    IN  [k \in 1..n |-> TrainRow(uid, train_items, lo + k - 1)]

\* mutant of ValidRow: the context keeps the validation item itself
ValidRow_LongContext(uid, items) ==
    [user_id |-> uid, item_id |-> items[Len(items) - 1], item_seq |-> DropLast(items, 1)]

\* lines 138-142: target items[-2], context items[:-2]
ValidRow(uid, items) ==
    [user_id |-> uid, item_id |-> items[Len(items) - 1], item_seq |-> DropLast(items, 2)]

\* mutant of TestRow: the test sample repeats the validation sample
TestRow_CopyOfValid(uid, items) ==
    [user_id |-> uid, item_id |-> items[Len(items) - 1], item_seq |-> DropLast(items, 2)]

\* lines 145-149: target items[-1], context items[:-1]
TestRow(uid, items) ==
    [user_id |-> uid, item_id |-> items[Len(items)], item_seq |-> DropLast(items, 1)]

\* ------------------------------------------ Generator: tables and tensors
\* line 157: x[-MAX_ITEM_SEQ_LEN:]
Truncate(x, maxlen) == LastN(x, maxlen)

\* mutant of LeftPad: the padding goes to the right
LeftPad_Right(seq, maxlen, value) == seq \o [i \in 1..(maxlen - Len(seq)) |-> value]

\* line 180: pad(seq, (MAX_ITEM_SEQ_LEN - len(seq), 0), value): left padding
LeftPad(seq, maxlen, value) == [i \in 1..(maxlen - Len(seq)) |-> value] \o seq

\* the padding value of line 180
PadItem(nitems) == nitems - 1

\* lines 155-158 and 169-190: rows -> DataFrame (truncated context and its
\* length) -> columns; the context column is left padded
DataframeToTensors(rows, maxlen, nitems) ==
    LET trunc == [k \in 1..Len(rows) |-> Truncate(rows[k].item_seq, maxlen)]
    IN  [user_id      |-> [k \in 1..Len(rows) |-> rows[k].user_id],
         item_id      |-> [k \in 1..Len(rows) |-> rows[k].item_id],
         item_seq     |-> [k \in 1..Len(rows) |-> LeftPad(trunc[k], maxlen, PadItem(nitems))],
         item_seq_len |-> [k \in 1..Len(rows) |-> Len(trunc[k])]]

\* line 163: self.data_dict[split_name] = {}, a dict without any field
EmptyDict == [f \in {} |-> <<>>]

\* line 153: the splits in the order they are converted
SplitNames == <<"train", "valid", "test">>

SplitRows(k) == IF k = 1 THEN train_data ELSE IF k = 2 THEN valid_data ELSE test_data

\* --------------------------------------------------- Generator: artifacts
\* all lists over S of length at most n
SeqsUpTo(S, n) == UNION {[1..k -> S] : k \in 0..n}

RECURSIVE SumSeq(_)
SumSeq(x) == IF Len(x) = 0 THEN 0 ELSE x[1] + SumSeq(Tail(x))

\* the dense user ids 0..n-1 as keys, in ascending or in descending order
\* (the Builder inserts a user when the first chunk holding it is merged,
\* so the key order of an artifact need not be ascending)
KeyOrders(n) == {[i \in 1..n |-> i - 1], [i \in 1..n |-> n - i]}

\* items[from+1 .. from+len]
Cut(flat, from, len) == SubSeq(flat, from + 1, from + len)

\* the artifact whose users, in key order, own consecutive pieces of flat
ArtifactOf(keys, lens, flat) ==
    [i \in 1..Len(keys) |->
        [key   |-> StrOf(keys[i]),
         items |-> Cut(flat, SumSeq(SubSeq(lens, 1, i - 1)), lens[i])]]

\* the worked example of the specification: one user, [0,1,2,3,4,5], and a
\* context window of 4
ScenarioSeq == <<0, 1, 2, 3, 4, 5>>
ScenarioArtifact == <<[key |-> StrOf(0), items |-> ScenarioSeq] >>

\* the artifact of the repository's tests (create_test_letter_data)
TestArtifact ==
    << [key |-> StrOf(0), items |-> <<0, 1, 2, 3, 4, 5>>],
       [key |-> StrOf(1), items |-> <<1, 2, 3, 4, 5, 6, 7>>],
       [key |-> StrOf(2), items |-> <<2, 3, 4, 5, 6, 7, 8, 9>>] >>

\* the documented inputs, read with a context window of 4
DocumentedInput ==
    /\ MAX_ITEM_SEQ_LEN = 4
    /\ inters \in {ScenarioArtifact, TestArtifact}

\* an artifact as the Builder writes it when user 1 is first met in an
\* earlier chunk than user 0: the keys are not in ascending order
ReorderedArtifact ==
    << [key |-> StrOf(1), items |-> <<0, 1, 2, 3, 4>>],
       [key |-> StrOf(0), items |-> <<5, 1, 0>>] >>

ReorderedInput ==
    /\ MAX_ITEM_SEQ_LEN \in 1..MaxCtx
    /\ inters = ReorderedArtifact

GenStart ==
    /\ pc = "read"
    /\ processed_inters = <<>>
    /\ n_users = Unassigned
    /\ n_items = Unassigned
    /\ uidx = 1
    /\ train_data = <<>>
    /\ valid_data = <<>>
    /\ test_data = <<>>
    /\ sidx = 1
    /\ data_dict = EmptyDict

\* the Builder is not running
BuilderIdle ==
    /\ bpc = "idle"
    /\ min_interactions = 0
    /\ min_items = 0
    /\ loaded_df = <<>>
    /\ df = <<>>
    /\ split_dfs = <<>>
    /\ split_sequences = <<>>
    /\ all_sequences = <<>>
    /\ inter_json = <<>>

Init ==
    /\ GenStart
    /\ BuilderIdle
    /\ LoaderIdle
    /\ LookupIdle
    /\ \/ /\ MAX_ITEM_SEQ_LEN \in 1..MaxCtx
          /\ \E n \in 0..MaxUsers :
             \E keys \in KeyOrders(n) :
             \E flat \in SeqsUpTo(0..MaxItem, MaxEntries) :
             \E lens \in [1..n -> 0..MaxEntries] :
                /\ SumSeq(lens) = Len(flat)
                /\ inters = ArtifactOf(keys, lens, flat)
       \/ DocumentedInput
       \/ ReorderedInput

\* ----------------------------------------------------- Generator: actions
\* lines 84-110, LETTERReader._process_letter_data up to the call of
\* _convert_to_rearec_format.  max() of an empty set raises ValueError
\* after n_users has been assigned.
ProcessLetterData ==
    /\ pc = "read"
    /\ LET p == ProcessedFrom(inters, Len(inters))
       IN  /\ processed_inters' = p
           /\ n_users' = <<Len(p) + 1>>
           /\ IF AllItems(p) = {}
              THEN /\ pc' = "ValueError"
                   /\ n_items' = n_items
              ELSE /\ pc' = "convert"
                   /\ n_items' = <<NItems(AllItems(p))>>
    /\ UNCHANGED <<inters, MAX_ITEM_SEQ_LEN, uidx, train_data, valid_data,
                   test_data, sidx, data_dict>>
    /\ UNCHANGED <<bvars, lvars, tvars>>

\* lines 120-122: one iteration of the user loop, a user that is skipped
SkipUser ==
    /\ pc = "convert"
    /\ uidx <= Len(processed_inters)
    /\ TooFew(processed_inters[uidx].items)
    /\ uidx' = uidx + 1
    /\ UNCHANGED <<inters, MAX_ITEM_SEQ_LEN, pc, processed_inters, n_users,
                   n_items, train_data, valid_data, test_data, sidx, data_dict>>
    /\ UNCHANGED <<bvars, lvars, tvars>>

\* lines 120-149: one iteration of the user loop, a user that is split
SplitUser ==
    /\ pc = "convert"
    /\ uidx <= Len(processed_inters)
    /\ ~TooFew(processed_inters[uidx].items)
    /\ LET uid == processed_inters[uidx].uid
           items == processed_inters[uidx].items
       IN  /\ train_data' = train_data \o TrainRows(uid, items)
           /\ valid_data' = Append(valid_data, ValidRow(uid, items))
           /\ test_data' = Append(test_data, TestRow(uid, items))
    /\ uidx' = uidx + 1
    /\ UNCHANGED <<inters, MAX_ITEM_SEQ_LEN, pc, processed_inters, n_users,
                   n_items, sidx, data_dict>>
    /\ UNCHANGED <<bvars, lvars, tvars>>

\* line 152: the user loop is over, self.data_dict = {}
StartTables ==
    /\ pc = "convert"
    /\ uidx > Len(processed_inters)
    /\ pc' = "tables"
    /\ data_dict' = EmptyDict
    /\ UNCHANGED <<inters, MAX_ITEM_SEQ_LEN, processed_inters, n_users, n_items,
                   uidx, train_data, valid_data, test_data, sidx>>
    /\ UNCHANGED <<bvars, lvars, tvars>>

\* lines 153-161: one iteration of the split loop, a split with rows
FillSplit ==
    /\ pc = "tables"
    /\ sidx <= Len(SplitNames)
    /\ SplitRows(sidx) # <<>>
    /\ data_dict' = data_dict @@
          (SplitNames[sidx] :> DataframeToTensors(SplitRows(sidx), MAX_ITEM_SEQ_LEN, ValueOf(n_items)))
    /\ sidx' = sidx + 1
    /\ UNCHANGED <<inters, MAX_ITEM_SEQ_LEN, pc, processed_inters, n_users,
                   n_items, uidx, train_data, valid_data, test_data>>
    /\ UNCHANGED <<bvars, lvars, tvars>>

\* lines 153-154, 162-163: one iteration of the split loop, a split without rows
EmptySplit ==
    /\ pc = "tables"
    /\ sidx <= Len(SplitNames)
    /\ SplitRows(sidx) = <<>>
    /\ data_dict' = data_dict @@ (SplitNames[sidx] :> EmptyDict)
    /\ sidx' = sidx + 1
    /\ UNCHANGED <<inters, MAX_ITEM_SEQ_LEN, pc, processed_inters, n_users,
                   n_items, uidx, train_data, valid_data, test_data>>
    /\ UNCHANGED <<bvars, lvars, tvars>>

\* lines 165-167 and 82: the reader is constructed
Finish ==
    /\ pc = "tables"
    /\ sidx > Len(SplitNames)
    /\ pc' = "done"
    /\ UNCHANGED <<inters, MAX_ITEM_SEQ_LEN, processed_inters, n_users, n_items,
                   uidx, train_data, valid_data, test_data, sidx, data_dict>>
    /\ UNCHANGED <<bvars, lvars, tvars>>

Next ==
    \/ ProcessLetterData
    \/ SkipUser
    \/ SplitUser
    \/ StartTables
    \/ FillSplit
    \/ EmptySplit
    \/ Finish

Spec == Init /\ [][Next]_vars

\* ======================================================================
\* Properties of the Generator
\* ======================================================================
\* the users whose loop iteration (line 120) is over
DoneUsers == 1..(uidx - 1)

\* a column of a finished table; a table without that field has no entry
Column(split, field) ==
    IF split \in DOMAIN data_dict /\ field \in DOMAIN data_dict[split]
    THEN data_dict[split][field] ELSE <<>>

\* how many entries of the list x equal v
Count(x, v) == Cardinality({k \in 1..Len(x) : x[k] = v})

\* the rows of a row list that carry user id u, in order
RowsOf(rows, u) == SelectSeq(rows, LAMBDA r : r.user_id = u)

UserIds(rows) == [k \in 1..Len(rows) |-> rows[k].user_id]

\* C1: a user whose sequence has length L >= 3 gets exactly max(0, L-3)
\* train rows, exactly one valid row and exactly one test row, in the row
\* lists and in the user_id columns of the finished tables.
C1_RowCounts ==
    \A j \in DoneUsers :
        LET u == processed_inters[j].uid
            L == Len(processed_inters[j].items)
        IN  L >= 3 =>
              /\ Count(UserIds(train_data), u) = Max2(0, L - 3)
              /\ Count(UserIds(valid_data), u) = 1
              /\ Count(UserIds(test_data), u) = 1
              /\ pc = "done" =>
                    /\ Count(Column("train", "user_id"), u) = Max2(0, L - 3)
                    /\ Count(Column("valid", "user_id"), u) = 1
                    /\ Count(Column("test", "user_id"), u) = 1

\* C1 witness: the reader is constructed from an artifact with several
\* users, one of them with at least two train rows
C1_Witness ==
    /\ pc = "done"
    /\ Len(processed_inters) >= 2
    /\ \E i, j \in 1..Len(processed_inters) :
          /\ i # j
          /\ Len(processed_inters[i].items) >= 5
          /\ Len(processed_inters[j].items) >= 3

\* the train row the window index i (0-based) of sequence S stands for
WindowRow(u, S, i) == [user_id |-> u, item_id |-> S[i + 1], item_seq |-> SubSeq(S, 1, i)]

\* the train rows of user j are exactly the windows lo..L-3 of its sequence
TrainWindowsFrom(lo) ==
    \A j \in DoneUsers :
        LET u == processed_inters[j].uid
            S == processed_inters[j].items
            L == Len(S)
        IN  L >= 3 =>
              Elems(RowsOf(train_data, u)) = {WindowRow(u, S, i) : i \in lo..(L - 3)}

\* the train table of the worked example once the reader is constructed
ScenarioTrain(targets, contexts, lengths) ==
    (pc = "done" /\ inters = ScenarioArtifact /\ MAX_ITEM_SEQ_LEN = 4) =>
        /\ Column("train", "item_id") = targets
        /\ Column("train", "item_seq") = contexts
        /\ Column("train", "item_seq_len") = lengths

\* C2 as stated: the train rows are the windows i in [2, L-3], and the
\* worked example has the train targets 2 and 3 only.
C2_Original ==
    /\ TrainWindowsFrom(2)
    /\ ScenarioTrain(<<2, 3>>,
                     << <<6, 6, 0, 1>>, <<6, 0, 1, 2>> >>,
                     <<2, 3>>)

\* C2 amended: the train rows of a user are exactly the pairs
\* (target S[i], context S[0:i]) for i in [1, L-3]; the worked example has
\* the train targets 1, 2 and 3 with contexts [PAD,PAD,PAD,0], [PAD,PAD,0,1]
\* and [PAD,0,1,2] of lengths 1, 2 and 3 (PAD = 6).
C2_TrainWindows ==
    /\ TrainWindowsFrom(1)
    /\ ScenarioTrain(<<1, 2, 3>>,
                     << <<6, 6, 6, 0>>, <<6, 6, 0, 1>>, <<6, 0, 1, 2>> >>,
                     <<1, 2, 3>>)

\* C2 witness: the worked example has been converted
C2_Witness ==
    /\ pc = "done"
    /\ inters = ScenarioArtifact
    /\ MAX_ITEM_SEQ_LEN = 4
    /\ Len(Column("train", "item_id")) = 3

\* C3: the test row of a user has target S[L-1] and context S[0:L-1], the
\* valid row has target S[L-2] and context S[0:L-2] (before truncation).
C3_HeldOutRows ==
    \A j \in DoneUsers :
        LET u == processed_inters[j].uid
            S == processed_inters[j].items
            L == Len(S)
        IN  L >= 3 =>
              /\ RowsOf(test_data, u) =
                    << [user_id |-> u, item_id |-> S[L], item_seq |-> SubSeq(S, 1, L - 1)] >>
              /\ RowsOf(valid_data, u) =
                    << [user_id |-> u, item_id |-> S[L - 1], item_seq |-> SubSeq(S, 1, L - 2)] >>

\* C3 witness: a user with two different held-out items has been split
C3_Witness ==
    \E j \in DoneUsers :
        LET S == processed_inters[j].items
        IN  /\ Len(S) >= 4
            /\ S[Len(S)] # S[Len(S) - 1]
            /\ S[Len(S) - 1] # S[Len(S) - 2]

\* the splits whose loop iteration (line 153) is over
DoneSplits == 1..(sidx - 1)

\* C4: in every row of every non-empty split, with C the untruncated
\* context: the padded context has MAX_ITEM_SEQ_LEN entries, the recorded
\* length is min(len(C), MAX_ITEM_SEQ_LEN), the entries before the last
\* `length` ones are all PAD (n_items - 1) and the last `length` entries
\* are the last `length` elements of C, in order.
C4_PaddedContext ==
    \A s \in DoneSplits :
        \A k \in 1..Len(SplitRows(s)) :
            LET C == SplitRows(s)[k].item_seq
                padded == Column(SplitNames[s], "item_seq")[k]
                n == Column(SplitNames[s], "item_seq_len")[k]
                M == MAX_ITEM_SEQ_LEN
            IN  /\ Len(Column(SplitNames[s], "item_seq")) = Len(SplitRows(s))
                /\ Len(Column(SplitNames[s], "item_seq_len")) = Len(SplitRows(s))
                /\ Len(padded) = M
                /\ n = Min2(Len(C), M)
                /\ n <= M
                /\ \A i \in 1..(M - n) : padded[i] = ValueOf(n_items) - 1
                /\ \A i \in 1..n : padded[M - n + i] = C[Len(C) - n + i]

\* C4 witness: a finished table holds a row whose context was cut and a row
\* whose context was padded
C4_Witness ==
    \E s \in DoneSplits :
        /\ \E k \in 1..Len(SplitRows(s)) : Len(SplitRows(s)[k].item_seq) > MAX_ITEM_SEQ_LEN
        /\ \E k \in 1..Len(SplitRows(s)) : Len(SplitRows(s)[k].item_seq) < MAX_ITEM_SEQ_LEN

\* every user id carried by a row list or by a finished table
EmittedUserIds ==
    UNION ({Elems(UserIds(SplitRows(s))) : s \in 1..3}
           \cup {Elems(Column(SplitNames[s], "user_id")) : s \in 1..3})

\* C5: a user with fewer than 3 items contributes no row to any split, and
\* every user id of any split belongs to a user with at least 3 items.
C5_ShortUsersExcluded ==
    /\ \A j \in 1..Len(processed_inters) :
          Len(processed_inters[j].items) < 3 =>
              processed_inters[j].uid \notin EmittedUserIds
    /\ \A u \in EmittedUserIds :
          \E j \in 1..Len(processed_inters) :
              /\ processed_inters[j].uid = u
              /\ Len(processed_inters[j].items) >= 3

\* C5 witness: an artifact with a user of exactly 2 items and a user that
\* was split has been converted completely
C5_Witness ==
    /\ pc = "done"
    /\ \E j \in 1..Len(processed_inters) : Len(processed_inters[j].items) = 2
    /\ \E j \in 1..Len(processed_inters) : Len(processed_inters[j].items) >= 3

\* every target item id of a row list or of a finished table
EmittedTargets ==
    UNION ({ {SplitRows(s)[k].item_id : k \in 1..Len(SplitRows(s))} : s \in 1..3}
           \cup {Elems(Column(SplitNames[s], "item_id")) : s \in 1..3})

\* C6: once a non-empty artifact has been processed, n_items is the largest
\* item id of all sequences plus 2, and the padding value n_items - 1 is no
\* target item id of any row of any split.
C6_NItemsAndPad ==
    pc \in {"convert", "tables", "done"} =>
        /\ \E j \in 1..Len(inters) : ValueOf(n_items) - 2 \in Elems(inters[j].items)
        /\ \A j \in 1..Len(inters) : \A i \in Elems(inters[j].items) : i <= ValueOf(n_items) - 2
        /\ (ValueOf(n_items) - 1) \notin EmittedTargets

\* C6 witness: the reader is constructed and the largest item id is a
\* target of some row
C6_Witness ==
    /\ pc = "done"
    /\ (ValueOf(n_items) - 2) \in EmittedTargets

\* the fields of a split table
TableFields == {"user_id", "item_id", "item_seq", "item_seq_len"}

\* C7: for every artifact the Generator completes without failing, and a
\* split without rows is reported as a table that still has the four
\* fields, each with zero rows.
C7_EmptySplitTable ==
    /\ pc # "ValueError"
    /\ \A s \in DoneSplits :
          SplitRows(s) = <<>> =>
              /\ DOMAIN data_dict[SplitNames[s]] = TableFields
              /\ \A f \in TableFields : Len(data_dict[SplitNames[s]][f]) = 0

\* C8 as stated: the held-out items S[L-2] and S[L-1] of a user are no
\* target and no context element of any train row of that user.
C8_Original ==
    \A j \in DoneUsers :
        LET u == processed_inters[j].uid
            S == processed_inters[j].items
            L == Len(S)
            rows == RowsOf(train_data, u)
        IN  L >= 3 =>
              \A k \in 1..Len(rows) :
                  /\ rows[k].item_id \notin {S[L - 1], S[L]}
                  /\ Elems(rows[k].item_seq) \cap {S[L - 1], S[L]} = {}

\* C8 amended: every train row of a user is read from the positions 0..L-3
\* of its sequence only (context followed by target is a prefix of S[0:L-2]),
\* so a held-out item occurs in a train row only if the same item id also
\* occurs among the first L-2 items of the user.
C8_TrainFromPrefixOnly ==
    \A j \in DoneUsers :
        LET u == processed_inters[j].uid
            S == processed_inters[j].items
            L == Len(S)
            rows == RowsOf(train_data, u)
        IN  L >= 3 =>
              \A k \in 1..Len(rows) :
                  LET w == Append(rows[k].item_seq, rows[k].item_id)
                  IN  /\ Len(w) <= L - 2
                      /\ w = SubSeq(S, 1, Len(w))
                      /\ \A h \in {S[L - 1], S[L]} :
                            h \notin Elems(SubSeq(S, 1, L - 2)) =>
                                h \notin Elems(w)

\* C8 witness: a split user has train rows, and its held-out items occur
\* nowhere among its earlier items
C8_Witness ==
    \E j \in DoneUsers :
        LET S == processed_inters[j].items
            L == Len(S)
        IN  /\ L >= 5
            /\ {S[L - 1], S[L]} \cap Elems(SubSeq(S, 1, L - 2)) = {}
            /\ Len(RowsOf(train_data, processed_inters[j].uid)) = L - 3

\* the rows of a finished table as (user_id, item_id, item_seq, item_seq_len)
TableRows(split) ==
    {<<Column(split, "user_id")[k], Column(split, "item_id")[k],
       Column(split, "item_seq")[k], Column(split, "item_seq_len")[k]>> :
        k \in 1..Len(Column(split, "user_id"))}

\* C9 as stated: no row (user_id, target_item_id, padded_context,
\* context_length) occurs in two different splits.
C9_Original ==
    pc = "done" =>
        /\ TableRows("train") \cap TableRows("valid") = {}
        /\ TableRows("train") \cap TableRows("test") = {}
        /\ TableRows("valid") \cap TableRows("test") = {}

\* some context of the artifact is longer than MAX_ITEM_SEQ_LEN
SomeContextCut ==
    \E k \in 1..Len(test_data) : Len(test_data[k].item_seq) > MAX_ITEM_SEQ_LEN

\* C9 amended: the examples (user_id, target, context before truncation) of
\* the three splits are pairwise disjoint, and so are the rows of the
\* finished tables whenever no context is longer than MAX_ITEM_SEQ_LEN.
C9_DisjointBeforeTruncation ==
    /\ Elems(train_data) \cap Elems(valid_data) = {}
    /\ Elems(train_data) \cap Elems(test_data) = {}
    /\ Elems(valid_data) \cap Elems(test_data) = {}
    /\ (pc = "done" /\ ~SomeContextCut) => C9_Original

\* C9 witness: a user whose items are all the same has been converted
\* without any truncation, all three splits having rows
C9_Witness ==
    /\ pc = "done"
    /\ ~SomeContextCut
    /\ train_data # <<>>
    /\ \E j \in 1..Len(processed_inters) :
          /\ Len(processed_inters[j].items) >= 4
          /\ Cardinality(Elems(processed_inters[j].items)) = 1

\* the position of user u in the artifact
ArtifactPosition(u) == CHOOSE i \in 1..Len(inters) : IntOf(inters[i].key) = u

\* a list of user ids that follows the order of the users in the artifact
UserMajor(ids) ==
    \A a, b \in 1..Len(ids) :
        a < b => ArtifactPosition(ids[a]) <= ArtifactPosition(ids[b])

\* C15: in each split (row list and finished table) the rows are in
\* user-major order following the order of the users in the artifact, and
\* from one train row of a user to the next the context length before
\* truncation strictly increases.
C15_RowOrder ==
    /\ \A s \in 1..3 : UserMajor(UserIds(SplitRows(s)))
    /\ \A s \in DoneSplits : UserMajor(Column(SplitNames[s], "user_id"))
    /\ \A k \in 1..(Len(train_data) - 1) :
          train_data[k].user_id = train_data[k + 1].user_id =>
              Len(train_data[k].item_seq) < Len(train_data[k + 1].item_seq)

\* C15 witness: the reader is constructed from an artifact whose keys are
\* not ascending; two users have rows, the first of them several train rows
C15_Witness ==
    /\ pc = "done"
    /\ Len(inters) >= 2
    /\ IntOf(inters[1].key) > IntOf(inters[2].key)
    /\ Len(Column("valid", "user_id")) >= 2
    /\ Len(RowsOf(train_data, IntOf(inters[1].key))) >= 2

\* C17: with MAX_ITEM_SEQ_LEN >= 1 every row of every split has a context
\* of at least one item: the untruncated context is not empty, the recorded
\* context length is at least 1 and the padded context ends with an item
\* that is not PAD.
C17_NonEmptyContext ==
    MAX_ITEM_SEQ_LEN >= 1 =>
        /\ \A s \in 1..3 : \A k \in 1..Len(SplitRows(s)) :
              Len(SplitRows(s)[k].item_seq) >= 1
        /\ \A s \in DoneSplits : \A k \in 1..Len(SplitRows(s)) :
              /\ Column(SplitNames[s], "item_seq_len")[k] >= 1
              /\ Column(SplitNames[s], "item_seq")[k][MAX_ITEM_SEQ_LEN] # ValueOf(n_items) - 1

\* C17 witness: the reader is constructed with the shortest contexts there
\* are: a user of exactly 3 items and the first train window of a user
C17_Witness ==
    /\ pc = "done"
    /\ \E k \in 1..Len(valid_data) : Len(valid_data[k].item_seq) = 1
    /\ \E k \in 1..Len(train_data) : Len(train_data[k].item_seq) = 1
    /\ \A s \in 1..3 : Len(Column(SplitNames[s], "item_seq_len")) >= 1

\* ======================================================================
\* Builder: preprocess_letter_data.main, from the loaded interactions on
\* ======================================================================
\* raw user ids, raw item ids and timestamps of the loaded interactions
\* (any comparable values; they are not dense, so remapping changes them)
RawUsers == {3, 7}
RawItems == {4, 9}
Timestamps == {0, 1}
\* the values tried for --min_interactions and --min_items
MinChoices == {1, 2}

\* the sorted list of a finite set of ints (Python sorted())
RECURSIVE SortedList(_)
SortedList(S) ==
    IF S = {} THEN <<>>
    ELSE LET m == CHOOSE x \in S : \A y \in S : x <= y
         IN  <<m>> \o SortedList(S \ {m})

\* the position (0-based) of x in the sorted list of S
IndexIn(S, x) == Cardinality({y \in S : y < x})

\* value_counts(): how many rows carry v in the column
UserCount(rows, v) == Cardinality({k \in 1..Len(rows) : rows[k].user_id = v})
ItemCount(rows, v) == Cardinality({k \in 1..Len(rows) : rows[k].item_id = v})

\* mutant of filter_data: the thresholds are compared with > instead of >=
filter_data_Strict(rows, min_i, min_it) ==
    LET by_user == SelectSeq(rows, LAMBDA r : UserCount(rows, r.user_id) > min_i)
    IN  SelectSeq(by_user, LAMBDA r : ItemCount(by_user, r.item_id) > min_it)

\* lines 105-123, filter_data: users first, then items counted on what is
\* left; df[mask] keeps the rows of the mask in their order
filter_data(rows, min_i, min_it) ==
    LET by_user == SelectSeq(rows, LAMBDA r : UserCount(rows, r.user_id) >= min_i)
    IN  SelectSeq(by_user, LAMBDA r : ItemCount(by_user, r.item_id) >= min_it)

\* lines 126-145, create_remapped_data: ids become their rank among the
\* sorted unique ids
create_remapped_data(rows) ==
    LET users == {rows[k].user_id : k \in 1..Len(rows)}
        items == {rows[k].item_id : k \in 1..Len(rows)}
    IN  [k \in 1..Len(rows) |->
            [user_id   |-> IndexIn(users, rows[k].user_id),
             item_id   |-> IndexIn(items, rows[k].item_id),
             timestamp |-> rows[k].timestamp]]

\* the permutations of 1..n
Perms(n) == {f \in [1..n -> 1..n] : \A i, j \in 1..n : f[i] = f[j] => i = j}

\* sort_values('timestamp'): pandas sorts with quicksort, which is not
\* stable, so rows of equal timestamp come out in any order
SortValues(rows) ==
    {[i \in 1..Len(rows) |-> rows[f[i]]] : f \in
        {g \in Perms(Len(rows)) :
            \A i \in 1..(Len(rows) - 1) : rows[g[i]].timestamp <= rows[g[i + 1]].timestamp}}

\* the largest power of 2 that is at most k (k >= 1): the binade of the
\* double k
RECURSIVE Pow2Floor(_)
Pow2Floor(k) == IF k < 2 THEN 1 ELSE 2 * Pow2Floor(k \div 2)

\* line 159: int(total_interactions * train_ratio), computed in doubles.
\* The double 0.7 is 0.7 - 2^-52 / 5, so n * 0.7 lies below 7n/10 by
\* n * 2^-52 / 5 before it is rounded to the nearest double.  Unless 7n/10
\* is an integer the truncation is floor(7n/10).  For n = 10 t the product
\* is rounded up to 7t exactly when it is at most half a spacing of the
\* doubles below 7t away (ties go to the even 7t): 4 t <= Pow2Floor(7 t);
\* otherwise it stays below 7t and truncates to 7t - 1 (n = 90, 170, 180).
TrainEnd(n) ==
    IF n > 0 /\ n % 10 = 0 /\ 4 * (n \div 10) > Pow2Floor(7 * (n \div 10))
    THEN (7 * n) \div 10 - 1
    ELSE (7 * n) \div 10

\* line 160: int(total_interactions * (train_ratio + valid_ratio)).  The sum
\* 0.7 + 0.1 is the double 0.7999999999999999 = 0.8 - 3 * 2^-52 / 10.
\* Unless 8n/10 is an integer the truncation is floor(8n/10).  For n = 5 t
\* the product lies 1.5 t * 2^-52 below 4t; it is rounded up to 4t exactly
\* when 4t is no power of 2 and 3 t < Pow2Floor(4 t); otherwise it
\* truncates to 4t - 1 (n = 5, 10, 15, 20, 30, 35, 40, 55, ...).
ValidEnd(n) ==
    IF /\ n > 0
       /\ n % 5 = 0
       /\ \/ Pow2Floor(4 * (n \div 5)) = 4 * (n \div 5)
          \/ 3 * (n \div 5) >= Pow2Floor(4 * (n \div 5))
    THEN (8 * n) \div 10 - 1
    ELSE (8 * n) \div 10

\* lines 163-165: iloc[:a], iloc[a:b], iloc[b:]
ILoc(rows, a, b) == SubSeq(rows, a + 1, b)

\* lines 157-165 on the sorted rows
SplitAt(sorted) ==
    LET n == Len(sorted)
    IN  << ILoc(sorted, 0, TrainEnd(n)),
           ILoc(sorted, TrainEnd(n), ValidEnd(n)),
           ILoc(sorted, ValidEnd(n), n) >>

\* the rows of one user, in their order (one group of groupby)
Group(rows, u) == SelectSeq(rows, LAMBDA r : r.user_id = u)

ItemIds(rows) == [k \in 1..Len(rows) |-> rows[k].item_id]

\* lines 182-183 for one group: the item lists its sorted rows can give
GroupItemLists(rows, u) == {ItemIds(r) : r \in SortValues(Group(rows, u))}

\* mutant of DictUpdate: a key that is already there keeps its value
RECURSIVE DictUpdate_KeepExisting(_, _, _)
DictUpdate_KeepExisting(d, e, n) ==
    IF n = 0 THEN d
    ELSE LET r == DictUpdate_KeepExisting(d, e, n - 1)
         IN  IF \E i \in 1..Len(r) : r[i].uid = e[n].uid
             THEN r ELSE Append(r, [uid |-> e[n].uid, items |-> e[n].items])

\* dict.update on insertion-ordered dicts of [uid, items]
RECURSIVE DictUpdate(_, _, _)
DictUpdate(d, e, n) ==
    IF n = 0 THEN d ELSE DictPut(DictUpdate(d, e, n - 1), e[n].uid, e[n].items)

\* line 201: {str(uid): items for uid, items in user_sequences.items()}
InterJson(d) == [k \in 1..Len(d) |-> [key |-> StrOf(d[k].uid), items |-> d[k].items]]

\* the Generator is not running
GeneratorIdle ==
    /\ pc = "idle"
    /\ inters = <<>>
    /\ MAX_ITEM_SEQ_LEN = 0
    /\ processed_inters = <<>>
    /\ n_users = Unassigned
    /\ n_items = Unassigned
    /\ uidx = 1
    /\ train_data = <<>>
    /\ valid_data = <<>>
    /\ test_data = <<>>
    /\ sidx = 1
    /\ data_dict = EmptyDict

RowValues == [user_id : RawUsers, item_id : RawItems, timestamp : Timestamps]

\* main after the loader returned: any list of loaded interactions
InitB ==
    /\ GeneratorIdle
    /\ LoaderIdle
    /\ LookupIdle
    /\ bpc = "filter"
    /\ min_interactions \in MinChoices
    /\ min_items \in MinChoices
    /\ loaded_df \in SeqsUpTo(RowValues, MaxRows)
    /\ df = loaded_df
    /\ split_dfs = <<>>
    /\ split_sequences = <<>>
    /\ all_sequences = <<>>
    /\ inter_json = <<>>

\* line 244: df = filter_data(df, args.min_interactions, args.min_items)
FilterData ==
    /\ bpc = "filter"
    /\ df' = filter_data(df, min_interactions, min_items)
    /\ bpc' = "remap"
    /\ UNCHANGED <<min_interactions, min_items, split_dfs, split_sequences,
                   all_sequences, inter_json>>
    /\ UNCHANGED <<gvars, loaded_df, lvars, tvars>>

\* line 247: df, user_id_map, item_id_map = create_remapped_data(df)
CreateRemappedData ==
    /\ bpc = "remap"
    /\ df' = create_remapped_data(df)
    /\ bpc' = "split"
    /\ UNCHANGED <<min_interactions, min_items, split_dfs, split_sequences,
                   all_sequences, inter_json>>
    /\ UNCHANGED <<gvars, loaded_df, lvars, tvars>>

\* line 250 (lines 148-169): the rows sorted by timestamp and cut by position
CreateAbsoluteTimestampSplit ==
    /\ bpc = "split"
    /\ \E sorted \in SortValues(df) : split_dfs' = SplitAt(sorted)
    /\ bpc' = "sequences"
    /\ UNCHANGED <<min_interactions, min_items, df, split_sequences,
                   all_sequences, inter_json>>
    /\ UNCHANGED <<gvars, loaded_df, lvars, tvars>>

\* lines 253-255 (lines 172-185): create_user_sequences of the next chunk;
\* groupby yields the users in ascending order
CreateUserSequences ==
    /\ bpc = "sequences"
    /\ Len(split_sequences) < 3
    /\ LET chunk == split_dfs[Len(split_sequences) + 1]
           us == SortedList({chunk[k].user_id : k \in 1..Len(chunk)})
       IN  \E lists \in [1..Len(us) -> UNION {GroupItemLists(chunk, u) : u \in Elems(us)}] :
              /\ \A k \in 1..Len(us) : lists[k] \in GroupItemLists(chunk, us[k])
              /\ split_sequences' = Append(split_sequences,
                     [k \in 1..Len(us) |-> [uid |-> us[k], items |-> lists[k]]])
    /\ UNCHANGED <<bpc, min_interactions, min_items, df, split_dfs,
                   all_sequences, inter_json>>
    /\ UNCHANGED <<gvars, loaded_df, lvars, tvars>>

\* lines 258-260: all_sequences.update(sequences) for train, valid, test
CombineSequences ==
    /\ bpc = "sequences"
    /\ Len(split_sequences) = 3
    /\ all_sequences' =
          LET a == DictUpdate(<<>>, split_sequences[1], Len(split_sequences[1]))
              b == DictUpdate(a, split_sequences[2], Len(split_sequences[2]))
          IN  DictUpdate(b, split_sequences[3], Len(split_sequences[3]))
    /\ bpc' = "save"
    /\ UNCHANGED <<min_interactions, min_items, df, split_dfs, split_sequences,
                   inter_json>>
    /\ UNCHANGED <<gvars, loaded_df, lvars, tvars>>

\* line 263 (lines 198-201): the interactions file is written
SaveLetterFormat ==
    /\ bpc = "save"
    /\ inter_json' = InterJson(all_sequences)
    /\ bpc' = "saved"
    /\ UNCHANGED <<min_interactions, min_items, df, split_dfs, split_sequences,
                   all_sequences>>
    /\ UNCHANGED <<gvars, loaded_df, lvars, tvars>>

NextB ==
    \/ FilterData
    \/ CreateRemappedData
    \/ CreateAbsoluteTimestampSplit
    \/ CreateUserSequences
    \/ CombineSequences
    \/ SaveLetterFormat

SpecB == InitB /\ [][NextB]_vars

\* ======================================================================
\* Properties of the Builder
\* ======================================================================
\* the entry of user u in the written interactions file
Written(u) == {k \in 1..Len(inter_json) : inter_json[k].key = StrOf(u)}

\* C10: for every user that survives filtering, the written sequence holds
\* all of the user's surviving interactions (its length is the user's
\* interaction count after filtering), as item ids in ascending timestamp
\* order.
C10_AllInteractionsWritten ==
    bpc = "saved" =>
        \A u \in {df[k].user_id : k \in 1..Len(df)} :
            \E k \in Written(u) :
                /\ Len(inter_json[k].items) = UserCount(df, u)
                /\ inter_json[k].items \in GroupItemLists(df, u)

\* the rows of loaded_df at the positions of K, in their order
RowsAt(K) ==
    LET F[n \in 0..Len(loaded_df)] ==
            IF n = 0 THEN <<>>
            ELSE IF n \in K THEN Append(F[n - 1], loaded_df[n]) ELSE F[n - 1]
    IN  F[Len(loaded_df)]

\* the positions of loaded_df whose user has at least min_interactions rows
\* in loaded_df
FrequentUserRows ==
    {k \in 1..Len(loaded_df) :
        Cardinality({j \in 1..Len(loaded_df) :
            loaded_df[j].user_id = loaded_df[k].user_id}) >= min_interactions}

\* C11 as stated: filter_data keeps exactly the interactions whose user has
\* at least min_interactions interactions and whose item has at least
\* min_items interactions, both counted over the interactions given to it.
C11_Original ==
    bpc = "remap" =>
        df = RowsAt({k \in FrequentUserRows :
                Cardinality({j \in 1..Len(loaded_df) :
                    loaded_df[j].item_id = loaded_df[k].item_id}) >= min_items})

\* C11 amended: filter_data is a single pass that keeps exactly the
\* interactions whose user has at least min_interactions interactions among
\* the interactions given to it and whose item has at least min_items
\* interactions among those left after the user filter; everything else is
\* dropped and no second round is run.
C11_FilterSinglePass ==
    bpc = "remap" =>
        df = RowsAt({k \in FrequentUserRows :
                Cardinality({j \in FrequentUserRows :
                    loaded_df[j].item_id = loaded_df[k].item_id}) >= min_items})

\* C11 witness: the filter dropped rows of a rare item and left a user with
\* fewer than min_interactions rows, which a second round would drop
C11_Witness ==
    /\ bpc = "remap"
    /\ 0 < Len(df)
    /\ Len(df) < Cardinality(FrequentUserRows)
    /\ \E k \in 1..Len(df) : UserCount(df, df[k].user_id) < min_interactions

\* the users left after filtering (remapped ids)
FilteredUsers == {df[k].user_id : k \in 1..Len(df)}

\* the chunks (1 = train, 2 = valid, 3 = test) that hold a row of user u
ChunksOf(u) == {c \in 1..3 : \E k \in 1..Len(split_dfs[c]) : split_dfs[c][k].user_id = u}

\* the latest chunk in which user u appears
LatestChunk(u) == CHOOSE c \in ChunksOf(u) : \A d \in ChunksOf(u) : d <= c

\* the cut positions of every total of 0..MaxTotal interactions lie in
\* order and within one row of 70% and 80% of the total
CutsWithinOneRow ==
    \A n \in 0..MaxTotal :
        /\ 0 <= TrainEnd(n) /\ TrainEnd(n) <= ValidEnd(n) /\ ValidEnd(n) <= n
        /\ (7 * n) \div 10 - TrainEnd(n) \in {0, 1}
        /\ (8 * n) \div 10 - ValidEnd(n) \in {0, 1}

\* C16: main sorts the filtered interactions by timestamp and cuts them by
\* position into a 70% / 10% / 20% train, valid and test chunk (the train
\* chunk has floor(0.7 n) rows and train and valid together floor(0.8 n)
\* rows or, by the rounding of the floating-point products, one row less);
\* the written file has one entry per filtered user, holding the
\* interactions of the latest chunk in which the user appears, in timestamp
\* order; it is not empty and is a trailing part of the user's
\* time-ordered interactions.
C16_LatestChunkWritten ==
    /\ CutsWithinOneRow
    /\ bpc = "saved" =>
        LET n == Len(df)
        IN  /\ split_dfs[1] \o split_dfs[2] \o split_dfs[3] \in SortValues(df)
            /\ (7 * n) \div 10 - Len(split_dfs[1]) \in {0, 1}
            /\ (8 * n) \div 10 - (Len(split_dfs[1]) + Len(split_dfs[2])) \in {0, 1}
            /\ Len(inter_json) = Cardinality(FilteredUsers)
            /\ \A u \in FilteredUsers :
                  /\ Cardinality(Written(u)) = 1
                  /\ \A k \in Written(u) :
                        LET items == inter_json[k].items
                        IN  /\ items \in GroupItemLists(split_dfs[LatestChunk(u)], u)
                            /\ Len(items) >= 1
                            /\ \E all \in GroupItemLists(df, u) :
                                  items = SubSeq(all, Len(all) - Len(items) + 1, Len(all))

\* C16 witness: the file is written; one user is met in the train chunk
\* only, another in two chunks, and of the latter fewer interactions are
\* written than it has
C16_Witness ==
    /\ bpc = "saved"
    /\ \E u \in FilteredUsers : ChunksOf(u) = {1}
    /\ \E u \in FilteredUsers :
          /\ Cardinality(ChunksOf(u)) = 2
          /\ \A k \in Written(u) : Len(inter_json[k].items) < UserCount(df, u)

\* ======================================================================
\* Loaders: load_amazon_data and load_yelp_data
\* ======================================================================
\* the values of the raw records: ratings around the thresholds tried, one
\* item and one date (both are only passed through)
Stars == {2, 3, 4}
Thresholds == {2, 3}
LoaderItems == {9}
LoaderDates == {1}

\* pandas reads an empty cell as NaN; every comparison with NaN is False
NaN == -1
IsNaN(x) == x = NaN

\* mutant of RatingAbove: the boundary rating is kept
RatingAbove_OrEqual(rating, threshold) == ~IsNaN(rating) /\ rating >= threshold

\* lines 62 and 98: df['rating'] > args.rating_threshold
RatingAbove(rating, threshold) == ~IsNaN(rating) /\ rating > threshold

\* the fields load_yelp_data reads of a record, in the order of lines 86-89
YelpFields == <<"user_id", "business_id", "stars", "date">>

\* a raw record without the fields of missing
Without(rec, missing) == [f \in (DOMAIN rec) \ missing |-> rec[f]]

\* the records of a Yelp file: complete ones and ones that lack one field
YelpRecords ==
    LET complete == {("user_id" :> u) @@ ("business_id" :> i) @@ ("stars" :> r) @@ ("date" :> d) :
                        u \in RawUsers, i \in LoaderItems, r \in Stars, d \in LoaderDates}
    IN  complete \cup {Without(rec, {f}) : rec \in complete, f \in Elems(YelpFields)}

\* line 84-90: the record has every field that is read
WellFormed(rec) == Elems(YelpFields) \subseteq DOMAIN rec

\* lines 85-90: the interaction built from a record
YelpInteraction(data) ==
    [user_id   |-> data["user_id"],
     item_id   |-> data["business_id"],
     rating    |-> data["stars"],
     timestamp |-> data["date"]]

\* line 95: pd.to_datetime(...).astype(int) // 10**9, a date (in days since
\* 1970-01-01) as seconds
DateToUnix(d) == d * 86400

\* lines 92-98 on a non-empty list of interactions
YelpFrame(rows, threshold) ==
    LET converted == [k \in 1..Len(rows) |->
                         [rows[k] EXCEPT !.timestamp = DateToUnix(rows[k].timestamp)]]
    IN  SelectSeq(converted, LAMBDA r : RatingAbove(r.rating, threshold))

\* the two headers of an Amazon csv file: the canonical names or the aliases
AmazonHeaders ==
    { <<"user_id", "item_id", "rating", "timestamp">>,
      <<"reviewerID", "asin", "overall", "unixReviewTime">> }

\* the rows of an Amazon file under header h; a rating cell may be empty
AmazonRows(h) ==
    {(h[1] :> u) @@ (h[2] :> i) @@ (h[3] :> r) @@ (h[4] :> t) :
        u \in RawUsers, i \in LoaderItems, r \in Stars \cup {NaN}, t \in LoaderDates}

\* lines 46-55: column_mapping, in its order
ColumnMapping ==
    << <<"user_id", "user_id">>, <<"item_id", "item_id">>, <<"rating", "rating">>,
       <<"timestamp", "timestamp">>, <<"reviewerID", "user_id">>, <<"asin", "item_id">>,
       <<"overall", "rating">>, <<"unixReviewTime", "timestamp">> >>

\* lines 57-59 on one row: a new column is added when the old one exists
\* and the new one does not
RECURSIVE Harmonize(_, _)
Harmonize(row, n) ==
    IF n = 0 THEN row
    ELSE LET done == Harmonize(row, n - 1)
             old == ColumnMapping[n][1]
             new == ColumnMapping[n][2]
         IN  IF old \in DOMAIN done /\ new \notin DOMAIN done
             THEN done @@ (new :> done[old])
             ELSE done

\* lines 57-62 on the rows read by line 43
AmazonFrame(rows, threshold) ==
    LET harmonized == [k \in 1..Len(rows) |-> Harmonize(rows[k], Len(ColumnMapping))]
    IN  SelectSeq(harmonized, LAMBDA r : RatingAbove(r["rating"], threshold))

InitL ==
    /\ GeneratorIdle
    /\ BuilderIdle
    /\ LookupIdle
    /\ lpc = "load"
    /\ rating_threshold \in Thresholds
    /\ \/ /\ source = "yelp"
          /\ raw \in SeqsUpTo(YelpRecords, MaxLines)
       \/ /\ source = "amazon"
          /\ \E h \in AmazonHeaders : raw \in SeqsUpTo(AmazonRows(h), MaxLines)
    /\ lidx = 1
    /\ interactions = <<>>
    /\ ldf = <<>>

\* lines 23-66, load_amazon_data on an existing file
LoadAmazon ==
    /\ lpc = "load"
    /\ source = "amazon"
    /\ ldf' = AmazonFrame(raw, rating_threshold)
    /\ lpc' = "returned"
    /\ UNCHANGED <<source, rating_threshold, raw, lidx, interactions>>
    /\ UNCHANGED <<gvars, bvars, tvars>>

\* lines 83-90: one iteration of the line loop, a record with every field
YelpReadRecord ==
    /\ lpc = "load"
    /\ source = "yelp"
    /\ lidx <= Len(raw)
    /\ WellFormed(raw[lidx])
    /\ interactions' = Append(interactions, YelpInteraction(raw[lidx]))
    /\ lidx' = lidx + 1
    /\ UNCHANGED <<lpc, source, rating_threshold, raw, ldf>>
    /\ UNCHANGED <<gvars, bvars, tvars>>

\* lines 83-90: one iteration of the line loop, a record that lacks a field:
\* data[...] raises KeyError, which nothing catches
YelpKeyError ==
    /\ lpc = "load"
    /\ source = "yelp"
    /\ lidx <= Len(raw)
    /\ ~WellFormed(raw[lidx])
    /\ lpc' = "KeyError"
    /\ UNCHANGED <<source, rating_threshold, raw, lidx, interactions, ldf>>
    /\ UNCHANGED <<gvars, bvars, tvars>>

\* lines 92-95 without any interaction: pd.DataFrame([]) has no column, and
\* df['timestamp'] raises KeyError
YelpNoColumn ==
    /\ lpc = "load"
    /\ source = "yelp"
    /\ lidx > Len(raw)
    /\ interactions = <<>>
    /\ lpc' = "KeyError"
    /\ UNCHANGED <<source, rating_threshold, raw, lidx, interactions, ldf>>
    /\ UNCHANGED <<gvars, bvars, tvars>>

\* lines 92-102: the frame is built, converted, filtered and returned
YelpReturn ==
    /\ lpc = "load"
    /\ source = "yelp"
    /\ lidx > Len(raw)
    /\ interactions # <<>>
    /\ ldf' = YelpFrame(interactions, rating_threshold)
    /\ lpc' = "returned"
    /\ UNCHANGED <<source, rating_threshold, raw, lidx, interactions>>
    /\ UNCHANGED <<gvars, bvars, tvars>>

NextL ==
    \/ LoadAmazon
    \/ YelpReadRecord
    \/ YelpKeyError
    \/ YelpNoColumn
    \/ YelpReturn

SpecL == InitL /\ [][NextL]_vars

\* ======================================================================
\* Properties of the loaders
\* ======================================================================
\* the rating a raw record carries, under whichever name
RawRating(rec) ==
    IF "stars" \in DOMAIN rec THEN rec["stars"]
    ELSE IF "rating" \in DOMAIN rec THEN rec["rating"]
    ELSE rec["overall"]

\* how many raw records, and how many returned rows, carry the rating v
RawWithRating(v) == Cardinality({k \in 1..Len(raw) : RawRating(raw[k]) = v})
ReturnedWithRating(v) == Cardinality({k \in 1..Len(ldf) : ldf[k]["rating"] = v})

\* C12: in both loaders a record survives iff rating > rating_threshold: a
\* record whose rating equals the threshold is excluded, every record with
\* a rating above it is kept.
C12_StrictRatingFilter ==
    lpc = "returned" =>
        \A v \in Stars :
            ReturnedWithRating(v) = IF v > rating_threshold THEN RawWithRating(v) ELSE 0

\* C12 witness: a loader returned from a file with a record at the
\* threshold and a record above it
C12_Witness ==
    /\ lpc = "returned"
    /\ RawWithRating(rating_threshold) > 0
    /\ \E v \in Stars : v > rating_threshold /\ RawWithRating(v) > 0
    /\ Len(ldf) > 0

\* the well-formed raw records whose rating passes the filter
Ingestible ==
    {k \in 1..Len(raw) :
        /\ source = "yelp" => WellFormed(raw[k])
        /\ ~IsNaN(RawRating(raw[k]))
        /\ RawRating(raw[k]) > rating_threshold}

\* C13: a record that lacks a required field is dropped and ingestion
\* continues with the remaining records: no record aborts the loader, and
\* once the file is read the loader returns the remaining records.
C13_MalformedRecordDropped ==
    /\ lpc = "KeyError" => lidx > Len(raw)
    /\ (lidx > Len(raw) /\ lpc = "returned") => Len(ldf) = Cardinality(Ingestible)

\* ======================================================================
\* Lookup: LETTERReader.get_item_tokens
\* ======================================================================
\* the token lists an index file may store (opaque strings)
TokenLists == { <<"<a_1>", "<b_2>", "<c_3>", "<d_4>">>, <<"<a_5>", "<b_6>", "<c_7>", "<d_8>">> }

\* the keys an index file may hold: str(i) of the item ids, and the key "01",
\* which str() of no id gives
IndexKeys == {StrOf(i) : i \in 0..MaxItem} \cup { <<0, 1>> }

\* the item ids a caller may ask for: the ids of the artifact and one more
QueryIds == 0..(MaxItem + 1)

\* mutant of TokenKey: the id is looked up under a zero-padded key
TokenKey_ZeroPadded(item_id) == <<0>> \o StrOf(item_id)

\* line 216: str(item_id)
TokenKey(item_id) == StrOf(item_id)

InitT ==
    /\ GeneratorIdle
    /\ BuilderIdle
    /\ LoaderIdle
    /\ tpc = "loop"
    /\ \E K \in SUBSET IndexKeys : indices \in [K -> TokenLists]
    /\ item_ids \in SeqsUpTo(QueryIds, MaxQuery)
    /\ tidx = 1
    /\ tokens = EmptyDict

\* lines 215-217: one iteration, an id whose key is in self.indices
LookupFound ==
    /\ tpc = "loop"
    /\ tidx <= Len(item_ids)
    /\ TokenKey(item_ids[tidx]) \in DOMAIN indices
    /\ tokens' = (item_ids[tidx] :> indices[TokenKey(item_ids[tidx])]) @@ tokens
    /\ tidx' = tidx + 1
    /\ UNCHANGED <<tpc, indices, item_ids>>
    /\ UNCHANGED <<gvars, bvars, lvars>>

\* lines 215-216: one iteration, an id whose key is not in self.indices
LookupAbsent ==
    /\ tpc = "loop"
    /\ tidx <= Len(item_ids)
    /\ TokenKey(item_ids[tidx]) \notin DOMAIN indices
    /\ tidx' = tidx + 1
    /\ UNCHANGED <<tpc, indices, item_ids, tokens>>
    /\ UNCHANGED <<gvars, bvars, lvars>>

\* line 219: return tokens
LookupReturn ==
    /\ tpc = "loop"
    /\ tidx > Len(item_ids)
    /\ tpc' = "returned"
    /\ UNCHANGED <<indices, item_ids, tidx, tokens>>
    /\ UNCHANGED <<gvars, bvars, lvars>>

NextT ==
    \/ LookupFound
    \/ LookupAbsent
    \/ LookupReturn

SpecT == InitT /\ [][NextT]_vars

\* the key of the index file that is the decimal string of the id i, if any
KeysOfId(i) ==
    {k \in DOMAIN indices : IntOf(k) = i /\ (Len(k) = 1 \/ k[1] # 0)}

\* C14: get_item_tokens returns (it has no failing step) a mapping whose
\* keys are exactly the queried ids present in the index mapping, each
\* mapped to its stored token list; absent ids are omitted.
C14_TokensOfPresentIds ==
    /\ tpc \in {"loop", "returned"}
    /\ tpc = "returned" =>
          /\ DOMAIN tokens = {i \in Elems(item_ids) : KeysOfId(i) # {}}
          /\ \A i \in DOMAIN tokens : \A k \in KeysOfId(i) : tokens[i] = indices[k]

\* C14 witness: a lookup returned for a query with a present id, an absent
\* id and an id whose only similar key is "01"
C14_Witness ==
    /\ tpc = "returned"
    /\ DOMAIN tokens # {}
    /\ \E i \in Elems(item_ids) : i \notin DOMAIN tokens
    /\ 1 \in Elems(item_ids) /\ <<0, 1>> \in DOMAIN indices /\ 1 \notin DOMAIN tokens

====
